---- MODULE Spec2Model ----
(***************************************************************************)
(* A model of mosaic_utils' crop pipeline (src/mosaic_utils/crop_mosaic.py):*)
(* tiling of the raster, extraction of the valid-pixel polygons by a pool   *)
(* of workers, cleaning and merging, negative buffer, convex hull and the   *)
(* cutline crop with its command-line fallback.                             *)
(*                                                                          *)
(* Geometry is modelled on the pixel grid: a polygon produced by            *)
(* rasterio.features.shapes is the set of pixel cells (col, row) of one     *)
(* 4-connected region of the mask, placed by the window transform.          *)
(***************************************************************************)
EXTENDS Integers, Sequences, FiniteSets, TLC

(* ------------------------------ bounds ---------------------------------- *)
\* rasters of the pipeline specification have at most MaxPixels pixels
MaxPixels == 4
\* tile edge lengths (block_size) of the pipeline specification: 1..MaxBlock
MaxBlock == 2
\* detected core counts: 1..MaxCpu
MaxCpu == 3
\* raster widths/heights and tile edges of the tiling specification
MaxTileDim == 5
\* longitudes are fixed-point numbers with LonScale steps per degree
LonScale == 2

(* ----------------------------- helpers ---------------------------------- *)
Min(a, b) == IF a <= b THEN a ELSE b

\* Python's int() of the quotient a / b (b > 0): truncation toward zero
IntTrunc(a, b) == IF a >= 0 THEN a \div b ELSE -((-a) \div b)

\* Python's range(start, stop, step) with step >= 1, as a sequence
Range(start, stop, step) ==
  [i \in 1..((stop - start + step - 1) \div step) |-> start + (i - 1) * step]

RECURSIVE ConcatAll(_)
ConcatAll(ss) == IF ss = <<>> THEN <<>> ELSE Head(ss) \o ConcatAll(Tail(ss))

(* ------------------------------ tiling ---------------------------------- *)
\* rasterio.windows.Window(col_off, row_off, width, height)
Window(x, y, w, h) == [col_off |-> x, row_off |-> y, width |-> w, height |-> h]

\* a window that is padded to the full block instead of clipped
PaddedWindowOf(x, y, w, h, bs) == Window(x, y, bs, bs)

\* the Window built in the loop body for offsets (x, y)
WindowOf(x, y, w, h, bs) == Window(x, y, Min(bs, w - x), Min(bs, h - y))

\* the tiles list built by the two nested range() loops, in append order
TileWindows(w, h, bs) ==
  ConcatAll([i \in DOMAIN Range(0, h, bs) |->
              [j \in DOMAIN Range(0, w, bs) |->
                 WindowOf(Range(0, w, bs)[j], Range(0, h, bs)[i], w, h, bs)]])

\* the pixel cells (col, row) of the raster grid and of one window
GridCells(w, h) == (0..(w - 1)) \X (0..(h - 1))
WindowCells(win) ==
  (win.col_off..(win.col_off + win.width - 1)) \X
  (win.row_off..(win.row_off + win.height - 1))

(* ------------------------ worker: one tile ------------------------------ *)
\* alpha values a pixel may carry (band 4): 0 is "no data", > 0 is valid
AlphaValues == {0, 255}

\* src.read(4, window=window): the window's alpha array, indexed locally
ReadWindow(band, win) ==
  [c \in (0..(win.width - 1)) \X (0..(win.height - 1)) |->
     band[<<win.col_off + c[1], win.row_off + c[2]>>]]

\* np.any(alpha)
NpAny(arr) == \E c \in DOMAIN arr : arr[c] # 0

\* the 4-connectivity rasterio.features.shapes uses by default
Adjacent4(a, b) ==
  \/ a[1] = b[1] /\ a[2] - b[2] \in {-1, 1}
  \/ a[2] = b[2] /\ a[1] - b[1] \in {-1, 1}

RECURSIVE Grow(_, _, _)
Grow(image, S, region) ==
  LET nxt == region \cup {c \in S : \E d \in region :
                             Adjacent4(c, d) /\ image[c] = image[d]}
  IN  IF nxt = region THEN region ELSE Grow(image, S, nxt)

\* the first cell of S in raster scan order (row by row)
FirstCell(S) ==
  CHOOSE c \in S : \A d \in S : c[2] < d[2] \/ (c[2] = d[2] /\ c[1] <= d[1])

\* the connected same-valued regions of the cells S of an image, in scan
\* order of their first cell
RECURSIVE Components(_, _)
Components(image, S) ==
  IF S = {} THEN <<>>
  ELSE LET comp == Grow(image, S, {FirstCell(S)})
       IN  <<comp>> \o Components(image, S \ comp)

\* the source's own transform, which places every tile at the raster origin
SrcTransform(win, c) == c

\* src.window_transform(window) applied to a local cell (col, row)
WindowTransform(win, c) == <<win.col_off + c[1], win.row_off + c[2]>>

\* a geometry as shapely sees it: its type, the pixel cells it covers, the
\* edge of a pixel measured in the metric working CRS (0 for a degenerate
\* transform), the inward offset a negative buffer left (numerator over
\* DistDen) and whether it is a convex hull. A reprojection moves the
\* coordinates and keeps the cells.
PolygonOf(cells, px) ==
  [kind |-> "Polygon", cells |-> cells, px |-> px, inset |-> 0, hull |-> FALSE]

IsEmpty(g) == g.cells = {}

\* g.area > 0
PositiveArea(g) == g.cells # {} /\ g.px > 0

\* g.area of a geometry that carries no inset
Area(g) == Cardinality(g.cells) * g.px * g.px

\* rasterio.features.shapes(image, mask=mask, transform=transform): one
\* (geometry, value) pair per connected region of the cells the mask keeps
Shapes(image, mask, win, px) ==
  LET kept  == {c \in DOMAIN image : mask[c]}
      comps == Components(image, kept)
  IN  [i \in DOMAIN comps |->
         [geom  |-> PolygonOf({WindowTransform(win, c) : c \in comps[i]}, px),
          value |-> image[FirstCell(comps[i])]]]

RECURSIVE SelectValue(_, _)
SelectValue(pairs, v) ==
  IF pairs = <<>> THEN <<>>
  ELSE (IF Head(pairs).value = v THEN <<Head(pairs).geom>> ELSE <<>>)
       \o SelectValue(Tail(pairs), v)

\* _shapes_from_tile_alpha((path, window)): the polygons of one tile
ShapesFromTileAlpha(band, win, px) ==
  LET a == ReadWindow(band, win)
  IN  IF ~NpAny(a) THEN <<>>
      ELSE LET mask == [c \in DOMAIN a |-> a[c] > 0]
               img  == [c \in DOMAIN a |-> IF mask[c] THEN 1 ELSE 0]
           IN  SelectValue(Shapes(img, mask, win, px), 1)

(* ------------------------- cleaning and merge --------------------------- *)
\* the "Final cleaning" loop: drops empty and zero-area polygons (polygons
\* of 4-connected pixel regions are valid, so buffer(0) is never needed)
RECURSIVE CleanPolys(_)
CleanPolys(ps) ==
  IF ps = <<>> THEN <<>>
  ELSE LET p == Head(ps)
       IN  (IF IsEmpty(p) \/ Area(p) = 0 THEN <<>>
            ELSE IF p.kind \in {"Polygon", "MultiPolygon"} /\ ~IsEmpty(p)
                 THEN <<p>> ELSE <<>>)
           \o CleanPolys(Tail(ps))

\* the type shapely gives a region: one polygon when its cells are joined
\* edge to edge, a multi-polygon otherwise
KindOfCells(cells) ==
  IF cells = {} THEN "Polygon"
  ELSE IF Grow([c \in cells |-> 1], cells, {FirstCell(cells)}) = cells
       THEN "Polygon" ELSE "MultiPolygon"

\* a merge that keeps the first polygon only
FirstOnlyUnion(gs) == Head(gs)

\* shapely.ops.unary_union of a non-empty list of geometries
UnaryUnion(gs) ==
  LET cells == UNION {gs[i].cells : i \in DOMAIN gs}
  IN  [kind |-> KindOfCells(cells), cells |-> cells, px |-> gs[1].px,
       inset |-> 0, hull |-> FALSE]

(* ------------------------------- settings ------------------------------- *)
\* num_workers = int(cpu_count() - (cpu_count() * 0.20)); in hundredths, which
\* the double arithmetic of the source agrees with for every n up to 200000
NumWorkers(n) == IntTrunc(n * 100 - n * 20, 100)

(* --------------------------------- CRS ---------------------------------- *)
EPSG4326 == [kind |-> "geographic", name |-> "EPSG:4326", zone |-> 0]
EPSG32721 == [kind |-> "projected", name |-> "EPSG:32721", zone |-> 0]
NoCRS == [kind |-> "None", name |-> "None", zone |-> 0]

\* what src.crs of the input raster may be
SourceCRS == {EPSG4326, EPSG32721, NoCRS}

\* CRS.from_proj4("+proj=utm +zone=<z> +datum=WGS84 +units=m +no_defs")
UtmCRS(z) == [kind |-> "projected", name |-> "+proj=utm +datum=WGS84", zone |-> z]

\* the zone taken from the truncated quotient of the longitude alone
ShiftedUtmZone(lon) == IntTrunc(lon, 6 * LonScale) + 31

\* the zone counted from zero
ZeroBasedUtmZone(lon) == IntTrunc(lon + 180 * LonScale, 6 * LonScale)

\* int((lon + 180) / 6) + 1, lon in steps of 1/LonScale degree
UtmZone(lon) == IntTrunc(lon + 180 * LonScale, 6 * LonScale) + 1

\* reproject_geom(geom, src_crs, dst_crs): the geometry is transformed unless
\* the two CRS are equal; "moved" tells whether a transformer was applied
ReprojectGeom(g, src, dst) ==
  IF src = NoCRS
  THEN [err |-> "ValueError", geom |-> g, moved |-> FALSE, crs |-> src]
  ELSE IF src = dst
  THEN [err |-> "", geom |-> g, moved |-> FALSE, crs |-> src]
  ELSE [err |-> "", geom |-> g, moved |-> TRUE, crs |-> dst]

\* the zones PROJ accepts in "+proj=utm +zone=<z>"
LegalUtmZone(z) == z \in 1..60

(* --------------------------- geometry stages ---------------------------- *)
NoGeom == [kind |-> "None", cells |-> {}, px |-> 0, inset |-> 0, hull |-> FALSE]
EmptyPolygon == [kind |-> "Polygon", cells |-> {}, px |-> 0, inset |-> 0, hull |-> FALSE]
EmptyCollection ==
  [kind |-> "GeometryCollection", cells |-> {}, px |-> 0, inset |-> 0, hull |-> FALSE]

\* ensure_valid_geometry(geom): a polygon is returned as it is or through
\* buffer(0), which leaves a valid or empty polygon unchanged; a
\* multi-polygon keeps its parts of positive area, merged again
EnsureValidGeometry(g) ==
  IF g.kind = "Polygon"
  THEN [err |-> "", geom |-> g]
  ELSE IF g.kind = "MultiPolygon"
  THEN IF ~PositiveArea(g)
       THEN [err |-> "RuntimeError", geom |-> g]
       ELSE [err |-> "", geom |-> [g EXCEPT !.kind = KindOfCells(g.cells)]]
  ELSE [err |-> "TypeError", geom |-> g]

\* thresholds are given in thousandths of a percent and distances are
\* numerators over DistDen metric units: dist = (area * threshold) / 100
DistDen == 100000
\* a distance that is kept away from zero
BufferDistWithFloor(g, thr) == Area(g) * thr + 1

BufferDist(g, thr) == Area(g) * thr

\* the sides of the bounding box of a region, in pixels
BoxSide(cells, k) ==
  LET vs == {c[k] : c \in cells}
  IN  (CHOOSE m \in vs : \A v \in vs : v <= m)
      - (CHOOSE m \in vs : \A v \in vs : m <= v) + 1

\* the region fills its bounding box
IsRect(cells) == Cardinality(cells) = BoxSide(cells, 1) * BoxSide(cells, 2)

\* twice the offset that leaves nothing of the bounding box, over DistDen
BoxLimit(g) == DistDen * g.px * Min(BoxSide(g.cells, 1), BoxSide(g.cells, 2))

\* geom.buffer(-dist, resolution=8) for dist = d / DistDen, where the outcome
\* is certain: nothing changes for dist = 0; an offset below half a pixel
\* leaves the core of every pixel, so the region keeps its cells and type;
\* a rectangle keeps a smaller rectangle for any offset below half its
\* shorter side; an offset of at least half the shorter side of the bounding
\* box leaves nothing, and GEOS returns an empty polygon
BufferDecided(g, d) ==
  \/ d = 0
  \/ 2 * d < DistDen * g.px
  \/ IsRect(g.cells)
  \/ 2 * d >= BoxLimit(g)

\* a buffer that is applied with the sign of the distance lost
OutwardBuffer(g, d) == [g EXCEPT !.inset = 0 - d]

NegativeBuffer(g, d) ==
  CASE d = 0 -> g
    [] d > 0 /\ 2 * d < DistDen * g.px -> [g EXCEPT !.inset = d]
    [] d > 0 /\ 2 * d >= DistDen * g.px /\ 2 * d < BoxLimit(g) /\ IsRect(g.cells)
         -> [g EXCEPT !.inset = d]
    [] d > 0 /\ 2 * d >= DistDen * g.px /\ 2 * d >= BoxLimit(g)
         -> EmptyPolygon

\* geom.convex_hull: a polygon for a region with area, an empty geometry
\* collection for an empty geometry
ConvexHull(g) ==
  IF IsEmpty(g) THEN EmptyCollection
  ELSE [g EXCEPT !.kind = "Polygon", !.hull = TRUE]

\* a cutline writer that keeps the first component of a multi-polygon
FirstPolygon(g) ==
  IF g.kind = "MultiPolygon"
  THEN [g EXCEPT !.kind = "Polygon",
                 !.cells = Components([c \in g.cells |-> 1], g.cells)[1]]
  ELSE g

\* largest_polygon(geom): the component of greatest area of a multi-polygon
LargestPolygon(g) ==
  IF g.kind = "MultiPolygon"
  THEN LET comps == Components([c \in g.cells |-> 1], g.cells)
           best  == CHOOSE i \in DOMAIN comps : \A j \in DOMAIN comps :
                      Cardinality(comps[j]) <= Cardinality(comps[i])
       IN  [g EXCEPT !.kind = "Polygon", !.cells = comps[best]]
  ELSE g

(* ------------------------------- state ---------------------------------- *)
VARIABLES
  width, height,   \* src.width, src.height of the input raster
  block_size,      \* tile edge passed to raster_to_polygon_parallel
  alpha,           \* band 4 of the input raster, by cell (col, row)
  pixel_size,      \* pixel edge given by the raster's transform
  cpu,             \* cpu_count()
  pc,              \* position of the orchestrating process
  raster_crs,      \* src.crs read at pipeline start
  tiles,           \* the tiles list
  tstate,          \* per tile: "queued", "running", "done" or "failed"
  outq,            \* results the workers handed back, in completion order
  polys,           \* the polys list
  geom,            \* the geometry the current stage returned
  err,             \* the exception that ended the run, "" when none
  threshold,       \* threshold_area, in thousandths of a percent
  centroid_lon,    \* geom.centroid.x, in steps of 1/LonScale degree
  metric_crs,      \* the working CRS of compute_negative_buffer
  n_transform,     \* transformers applied by compute_negative_buffer
  cutline,         \* TRUE while the temporary GeoJSON file exists
  output,          \* TRUE once a warp has written the output raster
  primary,         \* outcomes of the calls of gdal.Warp, TRUE for success
  fallback,        \* outcomes of the runs of the gdalwarp command line
  trace,           \* the stages entered so far, in order
  main_handle,     \* TRUE while the orchestrator holds the raster open
  worker_handles,  \* the tiles whose worker holds the raster open
  cutline_doc,     \* the GeoJSON document dumped into the cutline file
  requests,        \* the warps requested, by either route, in order
  intermediate     \* the intermediate raster of the two-pass variant

vars == <<width, height, block_size, alpha, pixel_size, cpu, pc, raster_crs,
          tiles, tstate, outq, polys, geom, err, threshold, centroid_lon,
          metric_crs, n_transform, cutline, output, primary, fallback,
          trace, main_handle, worker_handles, cutline_doc, requests,
          intermediate>>

inputs == <<width, height, block_size, alpha, pixel_size, cpu>>
extraction == <<tiles, tstate, outq, polys>>
buffering == <<threshold, centroid_lon, metric_crs, n_transform>>
cropping == <<cutline, output, primary, fallback>>
handles == <<main_handle, worker_handles>>
warping == <<cutline_doc, requests>>

NoDoc == [crs |-> NoCRS, features |-> <<>>]
NoRaster == [exists |-> FALSE, cells |-> {}]

\* the state before anything ran, for given inputs
Fresh ==
  /\ raster_crs = NoCRS
  /\ tiles = <<>> /\ tstate = <<>> /\ outq = <<>> /\ polys = <<>>
  /\ geom = NoGeom /\ err = ""
  /\ threshold = 0 /\ centroid_lon = 0 /\ metric_crs = NoCRS /\ n_transform = 0
  /\ cutline = FALSE /\ output = FALSE
  /\ primary = <<>> /\ fallback = <<>>
  /\ trace = <<>>
  /\ main_handle = FALSE /\ worker_handles = {}
  /\ cutline_doc = NoDoc /\ requests = <<>>
  /\ intermediate = NoRaster

\* crop_mosaic_by_polygon is about to be called on some raster
Init ==
  /\ width \in 1..MaxPixels /\ height \in 1..MaxPixels
  /\ width * height <= MaxPixels
  /\ block_size \in 1..MaxBlock
  /\ alpha \in [GridCells(width, height) -> AlphaValues]
  /\ pixel_size \in {0, 1}
  /\ cpu \in 1..MaxCpu
  /\ pc = "start"
  /\ Fresh

Fail(e) == pc' = "failed" /\ err' = e

(* ------------------- crop_mosaic_by_polygon: the start ------------------- *)
\* with rasterio.open(input_file) as src: raster_crs = src.crs.to_string().
\* A raster without CRS has src.crs None, and the attribute access raises;
\* the with block closes the handle on both ways out
ReadCrs ==
  /\ pc = "start"
  /\ \E crs \in SourceCRS :
       /\ raster_crs' = crs
       /\ IF crs = NoCRS THEN Fail("AttributeError")
          ELSE pc' = "tiling" /\ err' = err
  /\ main_handle' = FALSE
  /\ UNCHANGED <<inputs, extraction, geom, buffering, cropping, trace,
                 worker_handles, warping, intermediate>>

(* ---------------------- raster_to_polygon_parallel ---------------------- *)
\* "Create list of tiles": the raster is opened for its width and height
\* and the with block has closed it when the list is complete
CreateTiles ==
  /\ pc = "tiling"
  /\ tiles' = TileWindows(width, height, block_size)
  /\ tstate' = [i \in DOMAIN tiles' |-> "queued"]
  /\ pc' = "pool"
  /\ trace' = Append(trace, "extract")
  /\ main_handle' = FALSE
  /\ UNCHANGED <<inputs, raster_crs, outq, polys, geom, err, buffering,
                 cropping, worker_handles, warping, intermediate>>

\* Pool(processes=num_workers): a pool of fewer than one process is refused
\* with ValueError
PoolOpen ==
  /\ pc = "pool"
  /\ IF NumWorkers(cpu) < 1 THEN Fail("ValueError")
     ELSE pc' = "collect" /\ err' = err
  /\ UNCHANGED <<inputs, raster_crs, extraction, geom, buffering, cropping,
                 trace, handles, warping, intermediate>>

Running == {i \in DOMAIN tstate : tstate[i] = "running"}

\* the pool hands the next queued tile, in list order (chunksize=1), to an
\* idle worker, which opens the raster for itself
WorkerStart(i) ==
  /\ pc = "collect"
  /\ tstate[i] = "queued"
  /\ \A j \in DOMAIN tstate : j < i => tstate[j] # "queued"
  /\ Cardinality(Running) < NumWorkers(cpu)
  /\ tstate' = [tstate EXCEPT ![i] = "running"]
  /\ worker_handles' = worker_handles \cup {i}
  /\ UNCHANGED <<inputs, pc, raster_crs, tiles, outq, polys, geom, err,
                 buffering, cropping, trace, main_handle, warping,
                 intermediate>>

\* a worker that returns from the all-zero short cut without closing
WorkerFinishLeaking(i) ==
  /\ pc = "collect"
  /\ tstate[i] = "running"
  /\ \E ok \in BOOLEAN :
       /\ outq' = Append(outq,
                   [tile |-> i, ok |-> ok,
                    shapes |-> IF ok
                               THEN ShapesFromTileAlpha(alpha, tiles[i], pixel_size)
                               ELSE <<>>])
       /\ tstate' = [tstate EXCEPT ![i] = IF ok THEN "done" ELSE "failed"]
       /\ worker_handles' =
            (IF ok /\ ~NpAny(ReadWindow(alpha, tiles[i]))
             THEN worker_handles ELSE worker_handles \ {i})
  /\ UNCHANGED <<inputs, pc, raster_crs, tiles, polys, geom, err, buffering,
                 cropping, trace, main_handle, warping, intermediate>>

\* a worker runs _shapes_from_tile_alpha on its tile: it returns the tile's
\* polygons, or the read raises and the exception is handed back instead;
\* the with block closes the worker's handle on every way out
WorkerFinish(i) ==
  /\ pc = "collect"
  /\ tstate[i] = "running"
  /\ \E ok \in BOOLEAN :
       /\ outq' = Append(outq,
                   [tile |-> i, ok |-> ok,
                    shapes |-> IF ok
                               THEN ShapesFromTileAlpha(alpha, tiles[i], pixel_size)
                               ELSE <<>>])
       /\ tstate' = [tstate EXCEPT ![i] = IF ok THEN "done" ELSE "failed"]
  /\ worker_handles' = worker_handles \ {i}
  /\ UNCHANGED <<inputs, pc, raster_crs, tiles, polys, geom, err, buffering,
                 cropping, trace, main_handle, warping, intermediate>>

\* a loop that treats a failed tile as a tile without polygons
CollectSkippingFailures ==
  /\ pc = "collect"
  /\ outq # <<>>
  /\ outq' = Tail(outq)
  /\ polys' = (IF Head(outq).shapes # <<>>
               THEN polys \o Head(outq).shapes ELSE polys)
  /\ UNCHANGED <<inputs, pc, raster_crs, tiles, tstate, geom, err, buffering,
                 cropping, trace, handles, warping, intermediate>>

\* one turn of "for result in p.imap_unordered(...)": the next result in
\* completion order extends polys; a worker's exception is raised here and
\* leaves the with block, which terminates the pool and with it the worker
\* processes and the handles they hold
Collect ==
  /\ pc = "collect"
  /\ outq # <<>>
  /\ outq' = Tail(outq)
  /\ IF Head(outq).ok
     THEN /\ polys' = (IF Head(outq).shapes # <<>>
                       THEN polys \o Head(outq).shapes ELSE polys)
          /\ UNCHANGED <<pc, err, worker_handles>>
     ELSE /\ Fail("TileReadError")
          /\ polys' = polys
          /\ worker_handles' = {}
  /\ UNCHANGED <<inputs, raster_crs, tiles, tstate, geom, buffering, cropping,
                 trace, main_handle, warping, intermediate>>

\* every tile has been worked on and every result consumed
AllCollected ==
  /\ \A i \in DOMAIN tstate : tstate[i] \in {"done", "failed"}
  /\ outq = <<>>

\* an end of the extraction that hands on an empty region instead of raising
MergeWithoutChecks ==
  /\ pc = "collect"
  /\ AllCollected
  /\ geom' = (IF CleanPolys(polys) = <<>> THEN EmptyPolygon
              ELSE UnaryUnion(CleanPolys(polys)))
  /\ pc' = "buffer"
  /\ UNCHANGED <<inputs, raster_crs, extraction, err, buffering, cropping,
                 trace, handles, warping, intermediate>>

\* the rest of raster_to_polygon_parallel once every result is consumed:
\* the two emptiness checks around the cleaning loop, then the merge
CleanAndMerge ==
  /\ pc = "collect"
  /\ AllCollected
  /\ IF polys = <<>> THEN Fail("RuntimeError: no polygons") /\ geom' = geom
     ELSE IF CleanPolys(polys) = <<>>
     THEN Fail("RuntimeError: empty after cleaning") /\ geom' = geom
     ELSE /\ geom' = UnaryUnion(CleanPolys(polys))
          /\ pc' = "buffer" /\ err' = err
  /\ UNCHANGED <<inputs, raster_crs, extraction, buffering, cropping, trace,
                 handles, warping, intermediate>>

(* ------------------------ compute_negative_buffer ----------------------- *)
\* thresholds the pipeline is run with: 0, 0.005 %, 15 % and 100 %
Thresholds == {0, 5, 15000, 100000}

\* centroid longitudes of the pipeline's rasters, in degrees
PipelineLons == {-60, 0}

\* every longitude from -190 to 190 degrees, in steps of 1/LonScale degree
LonGrid == (-190 * LonScale)..(190 * LonScale)

\* the whole of compute_negative_buffer for the threshold thr and a region
\* whose centroid longitude is lon; a zone outside 1..60 in the projection
\* string makes the first reprojection raise
ComputeNegativeBuffer(thr, lon) ==
  LET src    == raster_crs
      metric == IF src.kind = "geographic" THEN UtmCRS(UtmZone(lon)) ELSE src
      there  == ReprojectGeom(geom, src, metric)
      d      == BufferDist(there.geom, thr)
      back   == ReprojectGeom(NegativeBuffer(there.geom, d), metric, src)
      valid  == EnsureValidGeometry(back.geom)
  IN  /\ pc = "buffer"
      /\ BufferDecided(geom, d)
      /\ trace' = Append(trace, "buffer")
      /\ threshold' = thr
      /\ centroid_lon' = (IF src.kind = "geographic" THEN lon ELSE centroid_lon)
      /\ metric_crs' = metric
      /\ IF src.kind = "geographic" /\ ~LegalUtmZone(metric.zone)
         THEN Fail("ProjError") /\ geom' = geom /\ n_transform' = 0
         ELSE IF there.err # ""
         THEN Fail(there.err) /\ geom' = geom /\ n_transform' = 0
         ELSE /\ n_transform' = (IF there.moved THEN 1 ELSE 0)
                                + (IF back.moved THEN 1 ELSE 0)
              /\ IF valid.err # "" THEN Fail(valid.err) /\ geom' = geom
                 ELSE geom' = valid.geom /\ pc' = "hull" /\ err' = err
      /\ UNCHANGED <<inputs, raster_crs, extraction, cropping, handles,
                     warping, intermediate>>

(* ---------------------- hull and its validation ------------------------- *)
\* a hull stage that notes the error and carries on to the next stage
FastConvexHullCarryingOn ==
  LET valid == EnsureValidGeometry(ConvexHull(geom))
  IN  /\ pc = "hull"
      /\ trace' = Append(trace, "hull")
      /\ geom' = valid.geom /\ pc' = "validate" /\ err' = valid.err
      /\ UNCHANGED <<inputs, raster_crs, extraction, buffering, cropping,
                     handles, warping, intermediate>>

\* fast_convex_hull
FastConvexHull ==
  LET valid == EnsureValidGeometry(ConvexHull(geom))
  IN  /\ pc = "hull"
      /\ trace' = Append(trace, "hull")
      /\ IF valid.err # "" THEN Fail(valid.err) /\ geom' = geom
         ELSE geom' = valid.geom /\ pc' = "validate" /\ err' = err
      /\ UNCHANGED <<inputs, raster_crs, extraction, buffering, cropping,
                     handles, warping, intermediate>>

\* step 4 of crop_mosaic_by_polygon: hull = ensure_valid_geometry(hull)
ValidateHull ==
  LET valid == EnsureValidGeometry(geom)
  IN  /\ pc = "validate"
      /\ trace' = Append(trace, "validate")
      /\ IF valid.err # "" THEN Fail(valid.err) /\ geom' = geom
         ELSE geom' = valid.geom /\ pc' = "cutline" /\ err' = err
      /\ UNCHANGED <<inputs, raster_crs, extraction, buffering, cropping,
                     handles, warping, intermediate>>

(* ---------------------------- crop_with_mask ---------------------------- *)
\* the FeatureCollection of geom_to_geojson_path: one feature, whose geometry
\* is the largest polygon of the reprojected and validated region
GeojsonDoc(crs, g) == [crs |-> crs, features |-> <<LargestPolygon(g)>>]

\* geom_to_geojson_path: the geometry goes to EPSG:4326, is validated and
\* reduced to its largest polygon; the temporary file is created
\* (delete=False) and the GeoJSON dumped into it, which may fail
GeomToGeojsonPath ==
  LET there == ReprojectGeom(geom, raster_crs, EPSG4326)
      valid == EnsureValidGeometry(there.geom)
      doc   == GeojsonDoc(there.crs, valid.geom)
  IN  /\ pc = "cutline"
      /\ trace' = Append(trace, "crop")
      /\ IF there.err # ""
         THEN Fail(there.err) /\ UNCHANGED <<geom, cutline, cutline_doc>>
         ELSE IF valid.err # ""
         THEN Fail(valid.err) /\ UNCHANGED <<geom, cutline, cutline_doc>>
         ELSE /\ geom' = doc.features[1]
              /\ cutline' = TRUE
              /\ \E dumped \in BOOLEAN :
                   IF dumped
                   THEN pc' = "warp" /\ err' = err /\ cutline_doc' = doc
                   ELSE Fail("OSError") /\ cutline_doc' = cutline_doc
      /\ UNCHANGED <<inputs, raster_crs, extraction, buffering, output,
                     primary, fallback, handles, requests, intermediate>>

\* block_size_output
BlockSizeOutput == 512

\* what gdal.WarpOptions asks for, beside the paths, the tile edge and the
\* thread count
PrimaryOptions ==
  {"format=COG", "cropToCutline", "COG=YES", "BIGTIFF=YES", "COMPRESS=DEFLATE",
   "OPTIMIZE_SIZE=TRUE", "multithread"}

\* what the gdalwarp command line asks for, beside the same
FallbackOptions ==
  {"format=COG", "cropToCutline", "BIGTIFF=YES", "COMPRESS=DEFLATE"}

\* a warp of input_path into output_path along the cutline file
WarpRequest(via, options) ==
  [via |-> via, input |-> "input_path", output |-> "output_path",
   cutline |-> cutline_doc, options |-> options,
   blocksize |-> BlockSizeOutput, threads |-> NumWorkers(cpu)]

\* a warp whose fallback is run whether or not gdal.Warp raised
WarpThenAlwaysFallback ==
  /\ pc = "warp"
  /\ \E ok \in BOOLEAN : primary' = Append(primary, ok) /\ output' = ok
  /\ requests' = Append(requests, WarpRequest("gdal.Warp", PrimaryOptions))
  /\ pc' = "fallback"
  /\ UNCHANGED <<inputs, raster_crs, extraction, geom, err, buffering, cutline,
                 fallback, trace, handles, cutline_doc, intermediate>>

\* gdal.Warp(output_path, input_path, options=warp_opts) inside the try
Warp ==
  /\ pc = "warp"
  /\ \E ok \in BOOLEAN :
       /\ primary' = Append(primary, ok)
       /\ IF ok THEN output' = TRUE /\ pc' = "cleanup"
          ELSE output' = output /\ pc' = "fallback"
  /\ requests' = Append(requests, WarpRequest("gdal.Warp", PrimaryOptions))
  /\ UNCHANGED <<inputs, raster_crs, extraction, geom, err, buffering, cutline,
                 fallback, trace, handles, cutline_doc, intermediate>>

\* the except branch: subprocess.run(["gdalwarp", ...], check=True); a
\* failing command raises CalledProcessError out of crop_with_mask
Fallback ==
  /\ pc = "fallback"
  /\ \E ok \in BOOLEAN :
       /\ fallback' = Append(fallback, ok)
       /\ IF ok THEN output' = TRUE /\ pc' = "cleanup" /\ err' = err
          ELSE output' = output /\ Fail("CalledProcessError")
  /\ requests' = Append(requests, WarpRequest("gdalwarp", FallbackOptions))
  /\ UNCHANGED <<inputs, raster_crs, extraction, geom, buffering, cutline,
                 primary, trace, handles, cutline_doc, intermediate>>

\* "remove geojson", after which crop_with_mask and the pipeline return
RemoveCutline ==
  /\ pc = "cleanup"
  /\ cutline' = FALSE
  /\ pc' = "done"
  /\ UNCHANGED <<inputs, raster_crs, extraction, geom, err, buffering, output,
                 primary, fallback, trace, handles, warping, intermediate>>

(* ---------------------------- specifications ---------------------------- *)
Next ==
  \/ ReadCrs
  \/ CreateTiles
  \/ PoolOpen
  \/ \E i \in DOMAIN tstate : WorkerStart(i)
  \/ \E i \in DOMAIN tstate : WorkerFinish(i)
  \/ Collect
  \/ CleanAndMerge
  \/ \E thr \in Thresholds, lon \in {l * LonScale : l \in PipelineLons} :
       ComputeNegativeBuffer(thr, lon)
  \/ FastConvexHull
  \/ ValidateHull
  \/ GeomToGeojsonPath
  \/ Warp
  \/ Fallback
  \/ RemoveCutline

\* the whole pipeline on every small raster
Spec == Init /\ [][Next]_vars

\* raster_to_polygon_parallel's tile list alone, on larger rasters
InitTiles ==
  /\ width \in 1..MaxTileDim /\ height \in 1..MaxTileDim
  /\ block_size \in 1..MaxTileDim
  /\ alpha = [c \in GridCells(width, height) |-> 255]
  /\ pixel_size = 1 /\ cpu = MaxCpu
  /\ pc = "tiling"
  /\ Fresh

NextTiles == CreateTiles

SpecTiles == InitTiles /\ [][NextTiles]_vars

\* compute_negative_buffer alone, on a fully valid raster of one of a few
\* shapes and on every centroid longitude of the grid
InitBuffer ==
  /\ width \in {1, 2} /\ height = 1
  /\ block_size = MaxBlock
  /\ alpha = [c \in GridCells(width, height) |-> 255]
  /\ pixel_size = 1 /\ cpu = MaxCpu
  /\ pc = "buffer"
  /\ raster_crs \in {EPSG4326, EPSG32721}
  /\ tiles = <<>> /\ tstate = <<>> /\ outq = <<>> /\ polys = <<>>
  /\ geom = UnaryUnion(<<PolygonOf(GridCells(width, height), pixel_size)>>)
  /\ err = ""
  /\ threshold = 0 /\ centroid_lon = 0 /\ metric_crs = NoCRS /\ n_transform = 0
  /\ cutline = FALSE /\ output = FALSE
  /\ primary = <<>> /\ fallback = <<>>
  /\ trace = <<>>
  /\ main_handle = FALSE /\ worker_handles = {}
  /\ cutline_doc = NoDoc /\ requests = <<>>
  /\ intermediate = NoRaster

NextBuffer == \E thr \in Thresholds, lon \in LonGrid : ComputeNegativeBuffer(thr, lon)

SpecBuffer == InitBuffer /\ [][NextBuffer]_vars

\* geom_to_geojson_path alone, on every region of a small grid, of one part
\* or several, in every CRS the caller may name
InitCutline ==
  /\ width \in 1..MaxPixels /\ height \in 1..MaxPixels
  /\ width * height <= MaxPixels
  /\ block_size = MaxBlock
  /\ alpha \in [GridCells(width, height) -> AlphaValues]
  /\ \E c \in GridCells(width, height) : alpha[c] > 0
  /\ pixel_size = 1 /\ cpu = MaxCpu
  /\ pc = "cutline"
  /\ raster_crs \in SourceCRS
  /\ tiles = <<>> /\ tstate = <<>> /\ outq = <<>> /\ polys = <<>>
  /\ geom = UnaryUnion(<<PolygonOf({c \in GridCells(width, height) : alpha[c] > 0},
                                   pixel_size)>>)
  /\ err = ""
  /\ threshold = 0 /\ centroid_lon = 0 /\ metric_crs = NoCRS /\ n_transform = 0
  /\ cutline = FALSE /\ output = FALSE
  /\ primary = <<>> /\ fallback = <<>>
  /\ trace = <<>>
  /\ main_handle = FALSE /\ worker_handles = {}
  /\ cutline_doc = NoDoc /\ requests = <<>>
  /\ intermediate = NoRaster

NextCutline == GeomToGeojsonPath

SpecCutline == InitCutline /\ [][NextCutline]_vars

(* ------------- the two-pass variant: src/crop_mosaic.py ------------------ *)
\* In this variant a pixel is valid unless its three colour bands all carry
\* the nodata value; alpha[c] > 0 stands for such a pixel.
SetMin(S) == CHOOSE m \in S : \A v \in S : m <= v
SetMax(S) == CHOOSE m \in S : \A v \in S : v <= m

\* remove_interiors on every part of the region: the cells its rings
\* enclose, those that no chain of free neighbours joins to the outside
HoleCells(cells) ==
  IF cells = {} THEN {}
  ELSE LET xs    == {c[1] : c \in cells}
           ys    == {c[2] : c \in cells}
           frame == ((SetMin(xs) - 1)..(SetMax(xs) + 1))
                    \X ((SetMin(ys) - 1)..(SetMax(ys) + 1))
           free  == frame \ cells
           out   == Grow([c \in free |-> 0], free,
                         {<<SetMin(xs) - 1, SetMin(ys) - 1>>})
       IN  free \ out

\* define_roi: the valid pixels are polygonized, dissolved into one
\* geometry, and close_holes fills what the geometry encloses
DefineRoi(valid, px) ==
  LET filled == valid \cup HoleCells(valid)
  IN  [kind |-> KindOfCells(filled), cells |-> filled, px |-> px,
       inset |-> 0, hull |-> FALSE]

\* roi_area.buffer(-1. * ((max(roi_area['geometry'].area) * thr) / 100.))
RoiBuffer(g, thr) == NegativeBuffer(g, Area(g) * thr)

\* the threshold of the second buffer, 0.001, in thousandths of a percent
FixedThreshold == 1

\* how many cells lie between a cell and the nearest side of the bounding
\* box of a region
Ring(c, cells) ==
  LET xs == {d[1] : d \in cells}
      ys == {d[2] : d \in cells}
  IN  Min(Min(c[1] - SetMin(xs), SetMax(xs) - c[1]),
          Min(c[2] - SetMin(ys), SetMax(ys) - c[2]))

\* the valid pixels a warp with -cutline and -crop_to_cutline keeps: those
\* whose centre lies inside the cutline
CutCells(valid, cut) ==
  {c \in valid \cap cut.cells :
     2 * cut.inset < DistDen * cut.px * (2 * Ring(c, cut.cells) + 1)}

\* one call of gdal.Warp of the two-pass variant
TwoPassRequest(input, out, cut) ==
  [input |-> input, output |-> out, cutline |-> cut]

\* roi_area = define_roi(file_in); gdal.Open may fail
DefineRoiOfSource ==
  /\ pc = "roi_source"
  /\ trace' = Append(trace, "roi_source")
  /\ \E ok \in BOOLEAN :
       IF ok
       THEN /\ geom' = DefineRoi({c \in GridCells(width, height) : alpha[c] > 0},
                                 pixel_size)
            /\ pc' = "crop_intermediate" /\ err' = err
       ELSE Fail("RuntimeError") /\ geom' = geom
  /\ UNCHANGED <<inputs, raster_crs, extraction, buffering, cropping, handles,
                 warping, intermediate>>

\* the first buffer, with the caller's threshold, and the warp of file_in
\* into file_out_tmp along it; max() of no area raises ValueError, a failing
\* warp raises and may leave a part of the file behind
CropToIntermediate(thr) ==
  LET cut == RoiBuffer(geom, thr)
  IN  /\ pc = "crop_intermediate"
      /\ IF IsEmpty(geom) THEN TRUE ELSE BufferDecided(geom, Area(geom) * thr)
      /\ trace' = Append(trace, "crop_intermediate")
      /\ threshold' = thr
      /\ IF IsEmpty(geom)
         THEN Fail("ValueError") /\ UNCHANGED <<requests, intermediate>>
         ELSE /\ requests' = Append(requests,
                               TwoPassRequest("file_in", "file_out_tmp", cut))
              /\ \E ok \in BOOLEAN :
                   IF ok
                   THEN /\ intermediate' =
                             [exists |-> TRUE,
                              cells |-> CutCells({c \in GridCells(width, height) :
                                                    alpha[c] > 0}, cut)]
                        /\ pc' = "roi_intermediate" /\ err' = err
                   ELSE /\ Fail("RuntimeError")
                        /\ \E left \in BOOLEAN :
                             intermediate' = [exists |-> left, cells |-> {}]
      /\ UNCHANGED <<inputs, raster_crs, extraction, geom, centroid_lon,
                     metric_crs, n_transform, cropping, handles, cutline_doc>>

\* roi_area = define_roi(file_out_tmp)
DefineRoiOfIntermediate ==
  /\ pc = "roi_intermediate"
  /\ trace' = Append(trace, "roi_intermediate")
  /\ \E ok \in BOOLEAN :
       IF ok
       THEN /\ geom' = DefineRoi(intermediate.cells, pixel_size)
            /\ pc' = "crop_final" /\ err' = err
       ELSE Fail("RuntimeError") /\ geom' = geom
  /\ UNCHANGED <<inputs, raster_crs, extraction, buffering, cropping, handles,
                 warping, intermediate>>

\* a second crop after which the function returns at once
CropToFinalAndReturn ==
  LET cut == ConvexHull(RoiBuffer(geom, FixedThreshold))
  IN  /\ pc = "crop_final"
      /\ trace' = Append(trace, "crop_final")
      /\ IF IsEmpty(geom)
         THEN Fail("ValueError") /\ UNCHANGED <<requests, output>>
         ELSE /\ requests' = Append(requests,
                               TwoPassRequest("file_out_tmp", "file_out", cut))
              /\ \E ok \in BOOLEAN :
                   IF ok THEN output' = TRUE /\ pc' = "done" /\ err' = err
                   ELSE Fail("RuntimeError") /\ output' = output
      /\ UNCHANGED <<inputs, raster_crs, extraction, geom, buffering, cutline,
                     primary, fallback, handles, cutline_doc, intermediate>>

\* the second buffer, with the fixed threshold, its convex hull, and the
\* warp of file_out_tmp into file_out along the hull
CropToFinal ==
  LET cut == ConvexHull(RoiBuffer(geom, FixedThreshold))
  IN  /\ pc = "crop_final"
      /\ trace' = Append(trace, "crop_final")
      /\ IF IsEmpty(geom)
         THEN Fail("ValueError") /\ UNCHANGED <<requests, output>>
         ELSE /\ requests' = Append(requests,
                               TwoPassRequest("file_out_tmp", "file_out", cut))
              /\ \E ok \in BOOLEAN :
                   IF ok THEN output' = TRUE /\ pc' = "remove" /\ err' = err
                   ELSE Fail("RuntimeError") /\ output' = output
      /\ UNCHANGED <<inputs, raster_crs, extraction, geom, buffering, cutline,
                     primary, fallback, handles, cutline_doc, intermediate>>

\* os.remove(file_out_tmp)
RemoveIntermediate ==
  /\ pc = "remove"
  /\ trace' = Append(trace, "remove_intermediate")
  /\ intermediate' = NoRaster
  /\ pc' = "done"
  /\ UNCHANGED <<inputs, raster_crs, extraction, geom, err, buffering,
                 cropping, handles, warping>>

\* the two-pass crop_mosaic_by_polygon is about to be called on some raster
InitTwoPass ==
  /\ width \in 1..MaxPixels /\ height \in 1..MaxPixels
  /\ width * height <= MaxPixels
  /\ block_size = MaxBlock
  /\ alpha \in [GridCells(width, height) -> AlphaValues]
  /\ pixel_size = 1 /\ cpu = MaxCpu
  /\ pc = "roi_source"
  /\ Fresh

NextTwoPass ==
  \/ DefineRoiOfSource
  \/ \E thr \in Thresholds : CropToIntermediate(thr)
  \/ DefineRoiOfIntermediate
  \/ CropToFinal
  \/ RemoveIntermediate

SpecTwoPass == InitTwoPass /\ [][NextTwoPass]_vars

(* ================================ claims ================================ *)
ValidCells == {c \in GridCells(width, height) : alpha[c] > 0}

\* a worker's read of its tile raised
TileFailed == \E i \in DOMAIN tstate : tstate[i] = "failed"

\* the collection loop has run to its end without a failed read
ExtractionComplete == tiles # <<>> /\ AllCollected /\ ~TileFailed

\* no stage after the extraction has run or left anything behind
NothingAfterExtraction ==
  /\ geom = NoGeom /\ metric_crs = NoCRS
  /\ ~cutline /\ ~output /\ primary = <<>> /\ fallback = <<>>

\* C1: the tile windows partition the pixel grid: every pixel lies in exactly
\* one window, no window reaches past the raster's width or height (the last
\* row and column are clipped to what remains), every window has positive
\* width and height
TilingIsPartition ==
  pc = "pool" =>
    /\ \A c \in GridCells(width, height) :
         Cardinality({i \in DOMAIN tiles : c \in WindowCells(tiles[i])}) = 1
    /\ \A i \in DOMAIN tiles :
         /\ tiles[i].col_off >= 0 /\ tiles[i].row_off >= 0
         /\ tiles[i].width >= 1 /\ tiles[i].height >= 1
         /\ tiles[i].width <= block_size /\ tiles[i].height <= block_size
         /\ tiles[i].col_off + tiles[i].width <= width
         /\ tiles[i].row_off + tiles[i].height <= height
         /\ WindowCells(tiles[i]) \subseteq GridCells(width, height)

\* a raster whose last column and last row of tiles are both clipped
TilingClipsBothWays ==
  /\ pc = "pool"
  /\ Len(tiles) >= 4
  /\ width % block_size # 0 /\ height % block_size # 0
  /\ tiles[Len(tiles)].width < block_size
  /\ tiles[Len(tiles)].height < block_size

\* C2: once every tile is collected, the polygons in polys cover exactly the
\* valid pixels of the raster (alpha > 0), and no pixel is covered twice
PolysCoverValidPixels ==
  (ExtractionComplete /\ ValidCells # {}) =>
    /\ UNION {polys[i].cells : i \in DOMAIN polys} = ValidCells
    /\ \A i, j \in DOMAIN polys : i # j => polys[i].cells \cap polys[j].cells = {}

\* every tile collected, a valid region cut by a tile boundary and a tile
\* without any valid pixel
BoundaryRegionCollected ==
  /\ ExtractionComplete
  /\ \E i, j \in DOMAIN tiles :
       /\ i # j
       /\ \E c \in WindowCells(tiles[i]) \cap ValidCells,
             d \in WindowCells(tiles[j]) \cap ValidCells : Adjacent4(c, d)
  /\ \E i \in DOMAIN tiles : WindowCells(tiles[i]) \cap ValidCells = {}

\* what the extraction yields when the tiles are taken in list order
PolysInTileOrder ==
  ConcatAll([i \in DOMAIN tiles |-> ShapesFromTileAlpha(alpha, tiles[i], pixel_size)])

\* C3: the outcome of the extraction does not depend on the order in which
\* the workers complete: a merged region is the one the tile order gives, and
\* an error for want of polygons is raised exactly when the tile order raises it
MergeIgnoresCompletionOrder ==
  /\ (pc = "buffer" /\ tiles # <<>>) =>
       /\ CleanPolys(PolysInTileOrder) # <<>>
       /\ geom = UnaryUnion(CleanPolys(PolysInTileOrder))
  /\ err = "RuntimeError: no polygons" => PolysInTileOrder = <<>>
  /\ err = "RuntimeError: empty after cleaning" =>
       PolysInTileOrder # <<>> /\ CleanPolys(PolysInTileOrder) = <<>>

\* a merge of at least two polygons that were collected out of tile order
MergedOutOfOrder ==
  /\ pc = "buffer" /\ tiles # <<>>
  /\ Len(polys) >= 2
  /\ polys # PolysInTileOrder

\* C4: once the read of a tile has failed in a worker, the extraction never
\* returns a region and no later stage runs; the run ends with that error,
\* however many tiles had completed before
TileFailureIsFatal ==
  TileFailed =>
    /\ pc \in {"collect", "failed"}
    /\ pc = "failed" => err = "TileReadError"
    /\ NothingAfterExtraction

\* the failure is raised after polygons of other tiles were collected
FailedAfterOtherTiles ==
  /\ TileFailed /\ pc = "failed"
  /\ polys # <<>>
  /\ \E i \in DOMAIN tstate : tstate[i] = "done"

\* C5: when no tile yields a polygon, or cleaning drops every polygon, the
\* extraction raises an error and the crop stage is never entered: no output
\* raster and no cutline file
EmptyExtractionRaises ==
  /\ (ExtractionComplete /\ pc # "collect"
        /\ (polys = <<>> \/ CleanPolys(polys) = <<>>)) =>
       /\ pc = "failed"
       /\ err = (IF polys = <<>> THEN "RuntimeError: no polygons"
                 ELSE "RuntimeError: empty after cleaning")
       /\ NothingAfterExtraction
  /\ (ExtractionComplete /\ ValidCells = {}) => polys = <<>>

\* a raster of several tiles whose alpha band is zero everywhere has failed
AllZeroRasterFailed ==
  /\ ExtractionComplete /\ pc = "failed"
  /\ Len(tiles) >= 2
  /\ ValidCells = {}

\* a raster with valid pixels whose polygons were all dropped by cleaning
AllPolygonsCleanedAway ==
  /\ ExtractionComplete /\ pc = "failed"
  /\ polys # <<>> /\ CleanPolys(polys) = <<>>

\* crop_with_mask has left its try statement
WarpTried == pc \in {"cleanup", "done"} \/ (pc = "failed" /\ primary # <<>>)

\* C6: the fallback runs if and only if gdal.Warp raised, and once; after a
\* successful gdal.Warp it never runs; a failing fallback ends crop_with_mask
\* with an error
FallbackOnlyAfterPrimaryFailure ==
  /\ Len(primary) <= 1 /\ Len(fallback) <= 1
  /\ fallback # <<>> => primary = <<FALSE>>
  /\ primary = <<TRUE>> => fallback = <<>>
  /\ (primary = <<FALSE>> /\ WarpTried) => Len(fallback) = 1
  /\ fallback = <<FALSE>> => (pc = "failed" /\ err = "CalledProcessError")

\* both gdal.Warp and the command line have failed
BothWarpsFailed == primary = <<FALSE>> /\ fallback = <<FALSE>> /\ pc = "failed"

\* C7: whenever crop_with_mask has finished after a warp attempt, the
\* temporary cutline file no longer exists
CutlineRemovedOnEveryExit ==
  (pc \in {"done", "failed"} /\ primary # <<>>) => ~cutline

\* C8: the pool size is at least 1 and at most the number of cores
NumWorkersInRange == 1 <= NumWorkers(cpu) /\ NumWorkers(cpu) <= cpu

\* compute_negative_buffer has chosen its working CRS
BufferRan == metric_crs # NoCRS

\* C9: for a geographic source and a centroid longitude from -180 to 180
\* degrees the working CRS is UTM zone floor((lon + 180) / 6) + 1; for a
\* projected source the working CRS is the source CRS, no zone is computed
\* and the region is not transformed in either direction
MetricCrsChoice ==
  BufferRan =>
    /\ (raster_crs.kind = "geographic"
          /\ -180 * LonScale <= centroid_lon /\ centroid_lon <= 180 * LonScale) =>
         metric_crs = UtmCRS(((centroid_lon + 180 * LonScale) \div (6 * LonScale)) + 1)
    /\ raster_crs.kind = "projected" =>
         /\ metric_crs = raster_crs
         /\ metric_crs.zone = 0
         /\ n_transform = 0

\* a geographic region west of Greenwich, off the zone boundaries, buffered
WesternZoneChosen ==
  /\ BufferRan /\ pc = "hull"
  /\ raster_crs.kind = "geographic"
  /\ centroid_lon = -61 * LonScale - 1
  /\ n_transform = 2

\* C10 as stated: a geographic region centred on longitude -60 gets zone 18
ZoneAtMinus60Is18 ==
  (BufferRan /\ raster_crs.kind = "geographic" /\ centroid_lon = -60 * LonScale) =>
    metric_crs.zone = 18

\* C10, amended: a geographic region centred on longitude -60 gets zone 21
ZoneAtMinus60Is21 ==
  (BufferRan /\ raster_crs.kind = "geographic" /\ centroid_lon = -60 * LonScale) =>
    metric_crs = UtmCRS(21)

\* a geographic region centred on longitude -60 has been buffered
BufferedAtMinus60 ==
  /\ BufferRan /\ pc = "hull"
  /\ raster_crs.kind = "geographic"
  /\ centroid_lon = -60 * LonScale

\* the region raster_to_polygon_parallel returned: the merged ROI
MergedROI == UnaryUnion(CleanPolys(polys))

\* C11: with threshold 0 the buffer distance is 0 and compute_negative_buffer
\* returns a region equal to its input; the geometry handed to the crop
\* stage is then exactly the convex hull of the merged ROI
ZeroThresholdKeepsRegion ==
  /\ (pc = "hull" /\ threshold = 0) =>
       /\ BufferDist(MergedROI, threshold) = 0
       /\ geom = MergedROI
  /\ (pc = "cutline" /\ threshold = 0) =>
       /\ geom = ConvexHull(MergedROI)
       /\ geom.inset = 0

\* a region of several parts went through a buffer of threshold 0 and its
\* hull is about to be handed to the crop stage
ZeroThresholdHullOfParts ==
  /\ pc = "cutline" /\ threshold = 0
  /\ MergedROI.kind = "MultiPolygon"
  /\ geom # MergedROI

\* a lies within b and has strictly less area
ShrunkWithin(a, b) ==
  /\ PositiveArea(b)
  /\ \/ IsEmpty(a)
     \/ /\ a.cells \subseteq b.cells /\ a.inset >= b.inset
        /\ (a.cells # b.cells \/ a.inset > b.inset)

\* C12: with a threshold above 0 the region compute_negative_buffer returns
\* lies within its input and has strictly less area; the inward distance is
\* (metric area * threshold) / 100, and nothing vanishes for a distance
\* below half a pixel
PositiveThresholdShrinks ==
  (pc = "hull" /\ threshold > 0) =>
    /\ ShrunkWithin(geom, MergedROI)
    /\ ~IsEmpty(geom) => geom.inset = Area(MergedROI) * threshold
    /\ IsEmpty(geom) => 2 * Area(MergedROI) * threshold >= DistDen * MergedROI.px

\* a square of four pixels came back smaller, not empty, from a buffer of
\* more than half a pixel
SquareShrunkByMoreThanHalfAPixel ==
  /\ pc = "hull" /\ threshold > 0
  /\ ~IsEmpty(geom) /\ Cardinality(geom.cells) = 4
  /\ 2 * geom.inset > DistDen * geom.px

\* the stages entered so far
StagesEntered == {trace[i] : i \in DOMAIN trace}

\* the hull finalizer, fast_convex_hull and the validation step, has returned
HullFinalized == pc \in {"cutline", "warp", "fallback", "cleanup", "done"}

\* C13 as stated: whenever the hull finalizer returns, its geometry is not
\* empty and has positive area; when the negative buffer has collapsed the
\* region to an empty geometry the run ends before the crop stage with the
\* degenerate-geometry error of ensure_valid_geometry, not with another one
CollapseReportedAsDegenerate ==
  /\ HullFinalized => (~IsEmpty(geom) /\ PositiveArea(geom))
  /\ ("buffer" \in StagesEntered /\ IsEmpty(geom)) =>
       /\ "crop" \notin StagesEntered
       /\ pc = "failed" => err = "RuntimeError"

IsPrefix(s, t) == Len(s) <= Len(t) /\ \A i \in DOMAIN s : s[i] = t[i]

\* the steps of the two-pass variant, in the order of its code
TwoPassSteps ==
  <<"roi_source", "crop_intermediate", "roi_intermediate", "crop_final",
    "remove_intermediate">>

\* C14: the two-pass variant runs ROI of the source, crop of the source into
\* the intermediate raster along the buffer of the caller's threshold, ROI of
\* the intermediate, crop of the intermediate into the final raster along
\* the convex hull of the buffer of the fixed threshold, removal of the
\* intermediate, in this order; whenever it has ended with the second crop
\* completed, the intermediate raster no longer exists
TwoPassOrderAndCleanup ==
  /\ IsPrefix(trace, TwoPassSteps)
  /\ Len(requests) <= 2
  /\ Len(requests) >= 1 =>
       requests[1] = TwoPassRequest("file_in", "file_out_tmp",
                       RoiBuffer(DefineRoi(ValidCells, pixel_size), threshold))
  /\ Len(requests) >= 2 =>
       /\ intermediate.exists \/ pc = "done"
       /\ requests[2] = TwoPassRequest("file_out_tmp", "file_out",
                          ConvexHull(RoiBuffer(geom, FixedThreshold)))
  /\ output => (Len(requests) = 2 /\ "crop_final" \in StagesEntered)
  /\ (pc \in {"done", "failed"} /\ output) => ~intermediate.exists

\* a run of the two-pass variant with a positive threshold has ended after
\* both crops
TwoPassCompleted ==
  /\ pc = "done" /\ output /\ threshold > 0
  /\ trace = TwoPassSteps
  /\ requests[2].cutline.hull /\ requests[2].cutline.inset > 0

\* the stages of crop_mosaic_by_polygon, in the order of its code
PipelineStages == <<"extract", "buffer", "hull", "validate", "crop">>

\* C15: the stages run in the order extraction and merge, negative buffer,
\* convex hull, validation, crop, each at most once; the crop stage is the
\* only one that writes anything and starts only after every earlier stage
\* has returned without error; an error, of the input (no CRS) or of the
\* geometry, ends the run at once and leaves no output raster
StagesInOrder ==
  /\ IsPrefix(trace, PipelineStages)
  /\ (err # "") <=> (pc = "failed")
  /\ (output \/ cutline \/ requests # <<>>) => trace = PipelineStages
  /\ (pc # "start" /\ raster_crs = NoCRS) => (pc = "failed" /\ trace = <<>>)
  /\ pc = "buffer" => trace = <<"extract">>
  /\ pc = "hull" => trace = <<"extract", "buffer">>
  /\ pc = "validate" => trace = <<"extract", "buffer", "hull">>
  /\ pc = "cutline" => trace = <<"extract", "buffer", "hull", "validate">>
  /\ (pc = "failed" /\ trace # PipelineStages) => ~output

\* a geometry error has ended a run in the hull stage, before the crop
GeometryErrorBeforeCrop ==
  /\ pc = "failed" /\ err = "TypeError"
  /\ trace = <<"extract", "buffer", "hull">>
  /\ ~output /\ ~cutline

\* C16 as stated: the command-line fallback requests the same crop as the
\* primary call: same input, output, cutline, tile edge and thread count,
\* and every option the primary call sets is set by the fallback too
FallbackRequestsSameCrop ==
  \A i, j \in DOMAIN requests :
    (requests[i].via = "gdal.Warp" /\ requests[j].via = "gdalwarp") =>
      /\ requests[j].input = requests[i].input
      /\ requests[j].output = requests[i].output
      /\ requests[j].cutline = requests[i].cutline
      /\ requests[j].blocksize = requests[i].blocksize
      /\ requests[j].threads = requests[i].threads
      /\ requests[i].options \subseteq requests[j].options

\* the region geom_to_geojson_path was called with, under SpecCutline
CutlineInput == UnaryUnion(<<PolygonOf(ValidCells, pixel_size)>>)

\* the connected part of a region that holds the cell c
PartOf(c, cells) == Grow([d \in cells |-> 1], cells, {c})

\* C17: the cutline file holds exactly one feature, a single polygon in
\* geographic coordinates: a region that is a single polygon is written as
\* it is, of a multi-polygon the part of greatest area is written
CutlineIsLargestPolygon ==
  cutline_doc # NoDoc =>
    /\ Len(cutline_doc.features) = 1
    /\ cutline_doc.crs = EPSG4326
    /\ LET f == cutline_doc.features[1]
       IN  /\ f.kind = "Polygon"
           /\ CutlineInput.kind = "Polygon" => f = CutlineInput
           /\ CutlineInput.kind = "MultiPolygon" =>
                /\ \E c \in ValidCells : f.cells = PartOf(c, ValidCells)
                /\ \A c \in ValidCells :
                     Cardinality(PartOf(c, ValidCells)) <= Cardinality(f.cells)
                /\ f.px = CutlineInput.px /\ f.inset = CutlineInput.inset

\* a region of several parts, whose first part is not the largest, given in
\* a projected CRS, has been written to the cutline file
LaterPartWritten ==
  /\ cutline_doc # NoDoc
  /\ raster_crs = EPSG32721
  /\ CutlineInput.kind = "MultiPolygon"
  /\ cutline_doc.features[1].cells # PartOf(FirstCell(ValidCells), ValidCells)

\* C18: no raster handle is held across stages: the orchestrator's handle
\* is closed before any tile is dispatched, each running worker holds a
\* handle of its own, which is closed however the worker ends, and outside
\* the collection loop no handle is open
NoHandleAcrossStages ==
  /\ worker_handles # {} => ~main_handle
  /\ (\E i \in DOMAIN tstate : tstate[i] # "queued") => ~main_handle
  /\ pc = "collect" => worker_handles = Running
  /\ \A i \in DOMAIN tstate :
       tstate[i] \in {"queued", "done", "failed"} => i \notin worker_handles
  /\ pc # "collect" => (worker_handles = {} /\ ~main_handle)

\* two workers hold a handle each while a tile without valid pixels has
\* already been worked on
TwoWorkersHoldHandles ==
  /\ pc = "collect"
  /\ Cardinality(worker_handles) = 2
  /\ \E i \in DOMAIN tstate :
       tstate[i] = "done" /\ ~NpAny(ReadWindow(alpha, tiles[i]))

\* C19 as stated: for a geographic source and every centroid longitude from
\* -180 to 180 degrees, both ends included, the zone put into the projection
\* string lies between 1 and 60
ZoneIsLegalUpTo180 ==
  (/\ BufferRan /\ raster_crs.kind = "geographic"
   /\ centroid_lon >= -180 * LonScale /\ centroid_lon <= 180 * LonScale) =>
    metric_crs.zone \in 1..60

====
